---- MODULE Spec2Model ----
(***************************************************************************)
(* A model of mesh/mapped.py: the mapped (curvilinear) 2-d grid, its       *)
(* metric arrays and face rotation matrices, the mapped cell-centred data  *)
(* container and its clone operation.                                      *)
(*                                                                         *)
(* Numbers are exact.  A coordinate is a rational <<n, d>> (d > 0, lowest  *)
(* terms).  A value stored in an array is a signed square root of a        *)
(* rational, <<s, n, d>> = s * sqrt(n / d) with s in {-1, 0, 1}; the       *)
(* undefined value (0/0, numpy's nan) is <<0, 0, 0>>.  A symbolic          *)
(* expression of the mapping is a polynomial in x, y, z.                   *)
(***************************************************************************)
EXTENDS Integers, Sequences, FiniteSets, TLC

\* ------------------------------------------------------------------ bounds
MaxN == 4

MaxNg == 1

MaxNvar == 3

MaxCont == 3

\* -------------------------------------------------------------- arithmetic
Abs(n) == IF n < 0 THEN -n ELSE n

Sign(n) == IF n < 0 THEN -1 ELSE IF n = 0 THEN 0 ELSE 1

Max(a, b) == IF a > b THEN a ELSE b

Min(a, b) == IF a < b THEN a ELSE b

RECURSIVE GCD(_, _)
GCD(a, b) == IF b = 0 THEN a ELSE GCD(b, a % b)

Rat(n, d) ==
    LET g == GCD(Abs(n), Abs(d))
        s == Sign(d)
    IN  <<(s * n) \div g, (s * d) \div g>>

RAdd(a, b) == Rat(a[1] * b[2] + b[1] * a[2], a[2] * b[2])

RSub(a, b) == Rat(a[1] * b[2] - b[1] * a[2], a[2] * b[2])

RMul(a, b) == Rat(a[1] * b[1], a[2] * b[2])

RNeg(a) == <<-a[1], a[2]>>

RECURSIVE RPow(_, _)
RPow(a, k) == IF k = 0 THEN <<1, 1>> ELSE RMul(a, RPow(a, k - 1))

NaN == <<0, 0, 0>>

Zero == <<0, 0, 1>>

One == <<1, 1, 1>>

IsNaN(v) == v[3] = 0

\* float(r): a rational as a stored value
FromRat(r) ==
    IF r[1] = 0 THEN Zero
    ELSE LET q == Rat(r[1] * r[1], r[2] * r[2]) IN <<Sign(r[1]), q[1], q[2]>>

\* the square of a stored value, a rational
SNeg(v) == <<-v[1], v[2], v[3]>>

SMul(a, b) ==
    IF IsNaN(a) \/ IsNaN(b) THEN NaN
    ELSE IF a[1] = 0 \/ b[1] = 0 THEN Zero
    ELSE LET q == Rat(a[2] * b[2], a[3] * b[3]) IN <<a[1] * b[1], q[1], q[2]>>

\* a / b as sympy evaluates it after substitution: 0/0 is nan
SDiv(a, b) ==
    IF IsNaN(a) \/ IsNaN(b) \/ b[1] = 0 THEN NaN
    ELSE IF a[1] = 0 THEN Zero
    ELSE LET q == Rat(a[2] * b[3], a[3] * b[2]) IN <<a[1] * b[1], q[1], q[2]>>

IsSquare(n) == \E k \in 0..n : k * k = n

ISqrt(n) == CHOOSE k \in 0..n : k * k = n

IsRational(v) == ~IsNaN(v) /\ IsSquare(v[2]) /\ IsSquare(v[3])

ToRat(v) == Rat(v[1] * ISqrt(v[2]), ISqrt(v[3]))

\* a + b where the sum is again a signed square root of a rational
SAdd(a, b) ==
    IF IsNaN(a) \/ IsNaN(b) THEN NaN
    ELSE IF a[1] = 0 THEN b
    ELSE IF b[1] = 0 THEN a
    ELSE IF a = SNeg(b) THEN Zero
    ELSE IF IsRational(a) /\ IsRational(b) THEN FromRat(RAdd(ToRat(a), ToRat(b)))
    ELSE IF a = b THEN <<a[1], 4 * a[2], a[3]>>
    ELSE NaN

\* ------------------------------------------------------------- polynomials
\* a polynomial is a sequence of monomials c * x^ex * y^ey * z^ez
Mono(n, d, i, j, k) == [c |-> Rat(n, d), ex |-> i, ey |-> j, ez |-> k]

NonZero(m) == m.c[1] # 0

\* sympy's expr.diff(v), v one of the symbols "x", "y": the terms free of v vanish
diff(p, v) ==
    SelectSeq([k \in 1..Len(p) |->
                  LET m == p[k]
                      e == IF v = "x" THEN m.ex ELSE m.ey
                  IN  IF e = 0 THEN [m EXCEPT !.c = <<0, 1>>]
                      ELSE IF v = "x"
                           THEN [m EXCEPT !.c = RMul(m.c, <<e, 1>>), !.ex = e - 1]
                           ELSE [m EXCEPT !.c = RMul(m.c, <<e, 1>>), !.ey = e - 1]],
              NonZero)

PNeg(p) == [k \in 1..Len(p) |-> [p[k] EXCEPT !.c = RNeg(p[k].c)]]

\* expr.subs({x: pt[1], y: pt[2]}) of an expression free of z
RECURSIVE EvalFrom(_, _, _)
EvalFrom(p, pt, k) ==
    IF k > Len(p) THEN <<0, 1>>
    ELSE RAdd(RMul(p[k].c, RMul(RPow(pt[1], p[k].ex), RPow(pt[2], p[k].ey))),
              EvalFrom(p, pt, k + 1))

Eval(p, pt) == EvalFrom(p, pt, 1)

\* ------------------------------------------------------------------ arrays
RECURSIVE Indices(_)
Indices(sh) ==
    IF Len(sh) = 0 THEN {<<>>}
    ELSE {<<i>> \o t : i \in 0..(sh[1] - 1), t \in Indices(Tail(sh))}

\* np.zeros(shape)
Zeros(sh) == [shape |-> sh, d |-> [idx \in Indices(sh) |-> Zero]]

\* the python list []
EmptyList == [shape |-> <<0>>, d |-> [idx \in {} |-> Zero]]

\* ---------------------------------------------------------------- mappings
\* map_func(grid): the user's mapping, a sympy.Matrix of two expressions
Affine(a, b, c, e, den) ==
    << <<Mono(a, den, 1, 0, 0), Mono(b, den, 0, 1, 0)>>,
       <<Mono(c, den, 1, 0, 0), Mono(e, den, 0, 1, 0)>> >>

\* physical = [[cos t, -sin t], [sin t, cos t]] * logical, cos t = c/den, sin t = s/den
RotationMap(c, s, den) == Affine(c, -s, s, c, den)

\* the angles of the rotation mappings, as <<cos, sin, den>>
Angles == << <<1, 0, 1>>, <<3, 4, 5>>, <<0, 1, 1>>, <<-1, 0, 1>> >>

NAngles == Len(Angles)

MapFuncs ==
    [k \in 1..NAngles |-> RotationMap(Angles[k][1], Angles[k][2], Angles[k][3])]
    \o << Affine(2, 0, 0, 1, 1),
          \* the wedge (x, x*y): the lines y = const are rays through the origin
          << <<Mono(1, 1, 1, 0, 0)>>, <<Mono(1, 1, 1, 1, 0)>> >>,
          \* the parabolic shear (x, y + x^2)
          << <<Mono(1, 1, 1, 0, 0)>>, <<Mono(1, 1, 0, 1, 0), Mono(1, 1, 2, 0, 0)>> >>,
          \* the fold (x, (y - 1/2)^2): d/dy vanishes on the line y = 1/2
          << <<Mono(1, 1, 1, 0, 0)>>,
             <<Mono(1, 1, 0, 2, 0), Mono(-1, 1, 0, 1, 0), Mono(1, 4, 0, 0, 0)>> >>,
          \* the collapsed mapping (x, x): every point lands on a line
          Affine(1, 0, 1, 0, 1) >>

IsIdentityMap(k) == MapFuncs[k] = Affine(1, 0, 0, 1, 1)

FoldMap == NAngles + 4

\* the domains [xmin, xmax] x [ymin, ymax] a grid is built on
Domains ==
    << [xmin |-> <<0, 1>>, xmax |-> <<1, 1>>, ymin |-> <<0, 1>>, ymax |-> <<1, 1>>],
       [xmin |-> <<-1, 1>>, xmax |-> <<1, 1>>, ymin |-> <<1, 1>>, ymax |-> <<2, 1>>] >>

\* the values random() + 0.01 may return
Samples == {<<1, 2>>, <<1, 1>>}

\* --------------------------------------------------------------- base grid
\* Grid2d.__init__: the uniform logical grid with ng ghost cells on each side
Grid2d(nx, ny, ng, dom) ==
    [nx |-> nx, ny |-> ny, ng |-> ng,
     xmin |-> dom.xmin, xmax |-> dom.xmax, ymin |-> dom.ymin, ymax |-> dom.ymax,
     dx |-> RMul(RSub(dom.xmax, dom.xmin), <<1, nx>>),
     dy |-> RMul(RSub(dom.ymax, dom.ymin), <<1, ny>>),
     qx |-> nx + 2 * ng, qy |-> ny + 2 * ng]

\* Grid2d.x2d[i, j], Grid2d.y2d[i, j]: the cell-centre coordinates
x2d(g, i) == RAdd(g.xmin, RMul(Rat(2 * (i - g.ng) + 1, 2), g.dx))

y2d(g, j) == RAdd(g.ymin, RMul(Rat(2 * (j - g.ng) + 1, 2), g.dy))

\* ------------------------------------------------------------ scratch_array
\* an argument of scratch_array: an int, or a tuple of such arguments
IntArg(n) == [k |-> "int", v |-> n, t |-> <<>>]

TupleArg(s) == [k |-> "tuple", v |-> 0, t |-> s]

RECURSIVE flatten(_)
flatten(t) ==
    IF t.k # "tuple" THEN <<t.v>>
    ELSE IF Len(t.t) = 0 THEN <<>>
    ELSE flatten(t.t[1]) \o flatten(TupleArg(Tail(t.t)))

scratch_array_nxny(g, nvar) ==
    IF nvar.k = "int" /\ nvar.v = 1
    THEN Zeros(<<g.nx, g.ny>>)
    ELSE Zeros(<<g.nx, g.ny>> \o flatten(nvar))

scratch_array(g, nvar) ==
    IF nvar.k = "int" /\ nvar.v = 1
    THEN Zeros(<<g.qx, g.qy>>)
    ELSE Zeros(<<g.qx, g.qy>> \o flatten(nvar))

\* ------------------------------------------------------ symbolic derivation
\* sympy.sqrt(z.dot(z)) of a vector of numbers
RECURSIVE SumSq(_, _)
SumSq(vec, k) ==
    IF k > Len(vec) THEN <<0, 1>> ELSE RAdd(RMul(vec[k], vec[k]), SumSq(vec, k + 1))

norm(vec) ==
    LET s == SumSq(vec, 1) IN IF s[1] = 0 THEN Zero ELSE <<1, s[1], s[2]>>

\* Matrix.diff(v), componentwise
MatDiff(m, v) == [k \in 1..Len(m) |-> diff(m[k], v)]

\* p1.cross(p2) of two vectors of three numbers
cross(a, b) ==
    << RSub(RMul(a[2], b[3]), RMul(a[3], b[2])),
       RSub(RMul(a[3], b[1]), RMul(a[1], b[3])),
       RSub(RMul(a[1], b[2]), RMul(a[2], b[1])) >>

EvalVec(v, pt) == [k \in 1..Len(v) |-> Eval(v[k], pt)]

\* the area element as an expression: the norm of the cross product of p1, p2
sym_area_element_same(g) == [p1 |-> MatDiff(g.map, "x"), p2 |-> MatDiff(g.map, "x")]

sym_area_element(g) == [p1 |-> MatDiff(g.map, "x"), p2 |-> MatDiff(g.map, "y")]

\* lambdify((x, y), sym_dA) applied to a point
EvalArea(dA, pt) == norm(cross(EvalVec(dA.p1, pt), EvalVec(dA.p2, pt)))

\* the line elements as expressions: l1 along y (x-faces), l2 along x (y-faces)
sym_line_elements(g) ==
    << <<diff(g.map[1], "y"), diff(g.map[2], "y")>>,
       <<diff(g.map[1], "x"), diff(g.map[2], "x")>> >>

\* lambdify((x, y), sym_hx) applied to a point
EvalLine(l, pt) == norm(EvalVec(l, pt))

\* a symbolic rotation matrix: the rows <<a, b>> and <<c, e>>, each divided by its
\* norm (R[0, :] /= norm(R[0, :]), R[1, :] /= norm(R[1, :]))
NormalizedRows(a, b, c, e) == << <<a, b>>, <<c, e>> >>

\* a row at a point; an entry whose numerator is the expression 0 beside a nonzero
\* norm expression is the expression 0, whatever the point
EvalRow(row, pt) ==
    LET a == Eval(row[1], pt)
        b == Eval(row[2], pt)
        n == norm(<<a, b>>)
        entry(k, v) == IF row[k] = << >> /\ row[3 - k] # << >> THEN Zero
                       ELSE SDiv(FromRat(v), n)
    IN  <<entry(1, a), entry(2, b)>>

\* M.subs({x: pt[1], y: pt[2]})
EvalMat(M, pt) == <<EvalRow(M[1], pt), EvalRow(M[2], pt)>>

\* M @ M.T of a matrix of numbers
MatMulT(M) ==
    [r \in 1..2 |-> [c \in 1..2 |->
        SAdd(SMul(M[r][1], M[c][1]), SMul(M[r][2], M[c][2]))]]

Eye2 == << <<One, Zero>>, <<Zero, One>> >>

\* assert_array_almost_equal((R @ R.T).subs(pt), np.eye(2)) does not raise
CheckPasses(M, pt) == MatMulT(EvalMat(M, pt)) = Eye2

sym_rotation_matrix_nocheck(g, s1, s2) ==
    LET fx == diff(g.map[1], "x")
        fy == diff(g.map[1], "y")
        gx == diff(g.map[2], "x")
        gy == diff(g.map[2], "y")
    IN  [ok |-> TRUE,
         Rx |-> NormalizedRows(gy, fy, PNeg(fy), gy),
         Ry |-> NormalizedRows(fx, gx, PNeg(gx), fx)]

\* the two face rotation matrices; ok is FALSE when an assertion raises
sym_rotation_matrix(g, s1, s2) ==
    LET fx == diff(g.map[1], "x")
        fy == diff(g.map[1], "y")
        gx == diff(g.map[2], "x")
        gy == diff(g.map[2], "y")
        Rx == NormalizedRows(gy, fy, PNeg(fy), gy)
        Ry == NormalizedRows(fx, gx, PNeg(gx), fx)
    IN  [ok |-> CheckPasses(Rx, s1) /\ CheckPasses(Ry, s2), Rx |-> Rx, Ry |-> Ry]

\* ------------------------------------------------------------------- state
VARIABLES
    gargs,      \* the arguments of MappedGrid2d(...): mapping, nx, ny, ng, domain
    gpc,        \* where the constructor stands: new, base, metric, done, failed
    grid,       \* the grid object (self)
    ret,        \* what the last call on the grid returned or raised
    heap,       \* the arrays and lists the containers refer to, by address
    cont,       \* the data containers
    lastOp      \* how the last operation on a container ended

vars == <<gargs, gpc, grid, ret, heap, cont, lastOp>>

\* ------------------------------------------------------------ MappedGrid2d
NoSym == << >>

\* super().__init__(...) and self.map = map_func(self).col_join(Matrix([z]))
GridBase(a) ==
    Grid2d(a.nx, a.ny, a.ng, Domains[a.dom]) @@
    [map |-> MapFuncs[a.mapk] \o << <<Mono(1, 1, 0, 0, 1)>> >>,
     kappa |-> EmptyList, gamma_fcx |-> EmptyList, gamma_fcy |-> EmptyList,
     hasR |-> FALSE, sym_Rx |-> NoSym, sym_Ry |-> NoSym]

\* the three metric arrays <<kappa, hx, hy>> over the (qx, qy) footprint
calculate_metric_elements(g) ==
    LET kappa == scratch_array(g, IntArg(1))
        hx == scratch_array(g, IntArg(1))
        hy == scratch_array(g, IntArg(1))
        sym_dA == sym_area_element(g)
        sym_h == sym_line_elements(g)
        half == <<1, 2>>
    IN  << [kappa EXCEPT !.d = [idx \in DOMAIN kappa.d |->
                EvalArea(sym_dA, <<x2d(g, idx[1]), y2d(g, idx[2])>>)]],
           [hx EXCEPT !.d = [idx \in DOMAIN hx.d |->
                EvalLine(sym_h[1],
                         <<RSub(x2d(g, idx[1]), RMul(half, g.dx)), y2d(g, idx[2])>>)]],
           [hy EXCEPT !.d = [idx \in DOMAIN hy.d |->
                EvalLine(sym_h[2],
                         <<x2d(g, idx[1]), RSub(y2d(g, idx[2]), RMul(half, g.dy))>>)]] >>

\* the derivation the two builders are closed over
calculate_rotation_matrices(g, s1, s2) == sym_rotation_matrix(g, s1, s2)

\* np.eye(nvar)
eye(nvar) == [a \in 0..(nvar - 1) |-> [b \in 0..(nvar - 1) |-> IF a = b THEN One ELSE Zero]]

\* the length of the slice lo:hi of an axis of n entries (0 <= lo, 0 <= hi)
SliceLen(lo, hi, n) == Max(0, Min(hi, n) - Min(lo, n))

ValueError == [kind |-> "ValueError", a |-> EmptyList]

Returned(a) == [kind |-> "ok", a |-> a]

\* the closure R_fcx of calculate_rotation_matrices
R_fcx(g, nvar, ixmom, iymom) ==
    LET R_fc == scratch_array(g, TupleArg(<<IntArg(nvar), IntArg(nvar)>>))
        R_mat == eye(nvar)
        xs(i) == RSub(x2d(g, i), RMul(<<1, 2>>, g.dx))
        ys(j) == y2d(g, j)
        len == SliceLen(ixmom, iymom + 1, nvar)
        \* np.array(sym_R.subs({x: xs[i, j], y: ys[i, j]})) at every location
        blk == [ij \in (0..(g.qx - 1)) \X (0..(g.qy - 1)) |->
                   EvalMat(g.sym_Rx, <<xs(ij[1]), ys(ij[2])>>)]
    IN  IF len # 2 THEN ValueError
        ELSE Returned([R_fc EXCEPT !.d = [idx \in DOMAIN R_fc.d |->
                IF idx[3] \in ixmom..iymom /\ idx[4] \in ixmom..iymom
                THEN blk[<<idx[1], idx[2]>>][idx[3] - ixmom + 1][idx[4] - ixmom + 1]
                ELSE R_mat[idx[3]][idx[4]]]])

\* the closure R_fcy of calculate_rotation_matrices
R_fcy(g, nvar, ixmom, iymom) ==
    LET R_fc == scratch_array(g, TupleArg(<<IntArg(nvar), IntArg(nvar)>>))
        R_mat == eye(nvar)
        xs(i) == x2d(g, i)
        ys(j) == RSub(y2d(g, j), RMul(<<1, 2>>, g.dy))
        len == SliceLen(ixmom, iymom + 1, nvar)
        \* np.array(sym_R.subs({x: xs[i, j], y: ys[i, j]})) at every location
        blk == [ij \in (0..(g.qx - 1)) \X (0..(g.qy - 1)) |->
                   EvalMat(g.sym_Ry, <<xs(ij[1]), ys(ij[2])>>)]
    IN  IF len # 2 THEN ValueError
        ELSE Returned([R_fc EXCEPT !.d = [idx \in DOMAIN R_fc.d |->
                IF idx[3] \in ixmom..iymom /\ idx[4] \in ixmom..iymom
                THEN blk[<<idx[1], idx[2]>>][idx[3] - ixmom + 1][idx[4] - ixmom + 1]
                ELSE R_mat[idx[3]][idx[4]]]])

\* self.kappa, self.gamma_fcx, self.gamma_fcy = self.calculate_metric_elements()
GridMetric(g) ==
    LET m == calculate_metric_elements(g)
    IN  [g EXCEPT !.kappa = m[1], !.gamma_fcx = m[2], !.gamma_fcy = m[3]]

\* self.R_fcx, self.R_fcy = self.calculate_rotation_matrices()
GridRotation(g, r) == [g EXCEPT !.hasR = TRUE, !.sym_Rx = r.Rx, !.sym_Ry = r.Ry]

\* no grid object yet
NoGrid ==
    Grid2d(1, 1, 0, Domains[1]) @@
    [map |-> << >>, kappa |-> EmptyList, gamma_fcx |-> EmptyList,
     gamma_fcy |-> EmptyList, hasR |-> FALSE, sym_Rx |-> NoSym, sym_Ry |-> NoSym]

NoRet == [op |-> "none", nvar |-> 0, ixmom |-> 0, iymom |-> 0, res |-> ValueError]

\* the arguments a grid is constructed with
GridArgs ==
    [mapk : 1..Len(MapFuncs), nx : {1, MaxN}, ny : {1, MaxN}, ng : {0, MaxNg},
     dom : 1..Len(Domains)]

\* MappedGrid2d.__init__, line 97 and 101
MappedGrid2d_init_base ==
    /\ gpc = "new"
    /\ grid' = GridBase(gargs)
    /\ gpc' = "base"
    /\ UNCHANGED <<gargs, ret, heap, cont, lastOp>>

\* MappedGrid2d.__init__, line 103
MappedGrid2d_init_metric ==
    /\ gpc = "base"
    /\ grid' = GridMetric(grid)
    /\ gpc' = "metric"
    /\ UNCHANGED <<gargs, ret, heap, cont, lastOp>>

\* MappedGrid2d.__init__, line 105: the object is returned, or an assertion raises
MappedGrid2d_init_rotation ==
    /\ gpc = "metric"
    /\ \E x1 \in Samples, y1 \in Samples, x2 \in Samples, y2 \in Samples :
          LET r == calculate_rotation_matrices(grid, <<x1, y1>>, <<x2, y2>>)
          IN  IF r.ok
              THEN grid' = GridRotation(grid, r) /\ gpc' = "done"
              ELSE grid' = grid /\ gpc' = "failed"
    /\ UNCHANGED <<gargs, ret, heap, cont, lastOp>>

\* grid.R_fcx(nvar, ixmom, iymom)
Call_R_fcx ==
    /\ gpc = "done"
    /\ ret = NoRet
    /\ \E nvar \in 1..MaxNvar :
          \E ixmom \in 0..(nvar - 1), iymom \in 0..(nvar - 1) :
             ret' = [op |-> "R_fcx", nvar |-> nvar, ixmom |-> ixmom, iymom |-> iymom,
                     res |-> R_fcx(grid, nvar, ixmom, iymom)]
    /\ UNCHANGED <<gargs, gpc, grid, heap, cont, lastOp>>

\* grid.R_fcy(nvar, ixmom, iymom)
Call_R_fcy ==
    /\ gpc = "done"
    /\ ret = NoRet
    /\ \E nvar \in 1..MaxNvar :
          \E ixmom \in 0..(nvar - 1), iymom \in 0..(nvar - 1) :
             ret' = [op |-> "R_fcy", nvar |-> nvar, ixmom |-> ixmom, iymom |-> iymom,
                     res |-> R_fcy(grid, nvar, ixmom, iymom)]
    /\ UNCHANGED <<gargs, gpc, grid, heap, cont, lastOp>>

\* the nvar arguments scratch_array is called with
ScratchArgs ==
    << IntArg(1), IntArg(MaxNvar), TupleArg(<<IntArg(1)>>),
       TupleArg(<<IntArg(MaxNvar), IntArg(MaxNvar)>>),
       TupleArg(<<IntArg(2), TupleArg(<<IntArg(1), IntArg(MaxNvar)>>)>>) >>

\* grid.scratch_array(nvar)
Call_scratch_array ==
    /\ gpc = "done"
    /\ ret = NoRet
    /\ \E k \in 1..Len(ScratchArgs) :
          ret' = [op |-> "scratch_array", nvar |-> k, ixmom |-> 0, iymom |-> 0,
                  res |-> Returned(scratch_array(grid, ScratchArgs[k]))]
    /\ UNCHANGED <<gargs, gpc, grid, heap, cont, lastOp>>

\* ------------------------------------------------------------ containers
\* a container slot the caller has bound nothing to
NoCont ==
    [kind |-> "none", grid |-> "", names |-> << >>, nvar |-> 0,
     data |-> 0, aux |-> 0, derives |-> 0, R_fcx |-> 0, R_fcy |-> 0]

\* how the last operation on a container ended, and the steps it took before; an
\* error stays until the caller handles it
Ended(err, done) == [err |-> err, done |-> done]

Ok == Ended("", << >>)

\* msg.fail(str): the error is reported and the program ends there
msg_fail == Ended("fail", << >>)

Live(c) == cont[c].kind # "none"

FieldSeq == <<"data", "aux", "derives", "R_fcx", "R_fcy">>

Fields == {FieldSeq[k] : k \in 1..Len(FieldSeq)}

\* the n smallest addresses free in heap h
RECURSIVE Fresh(_, _, _)
Fresh(h, n, from) ==
    IF n = 0 THEN << >>
    ELSE IF from \in DOMAIN h THEN Fresh(h, n, from + 1)
    ELSE <<from>> \o Fresh(h, n - 1, from + 1)

\* the addresses the containers cn refer to, in the order of slots and fields,
\* each once
RECURSIVE RefsFrom(_, _, _, _)
RefsFrom(cn, c, k, seen) ==
    IF c > Len(cn) THEN << >>
    ELSE IF k > Len(FieldSeq) THEN RefsFrom(cn, c + 1, 1, seen)
    ELSE LET a == cn[c][FieldSeq[k]]
         IN  IF a = 0 \/ a \in seen THEN RefsFrom(cn, c, k + 1, seen)
             ELSE <<a>> \o RefsFrom(cn, c, k + 1, seen \cup {a})

\* the objects no container refers to are freed, and the addresses of the others
\* renamed in the order of slots and fields: an address is an identity, no more
Collect(h, cn) ==
    LET order == RefsFrom(cn, 1, 1, {})
        pos(a) == IF a = 0 THEN 0 ELSE CHOOSE n \in 1..Len(order) : order[n] = a
    IN  [heap |-> [n \in 1..Len(order) |-> h[order[n]]],
         cont |-> [c \in 1..Len(cn) |->
                     [cn[c] EXCEPT !.data = pos(@), !.aux = pos(@), !.derives = pos(@),
                                   !.R_fcx = pos(@), !.R_fcy = pos(@)]]]

\* the single grid object every container of the model is bound to
TheGrid == "grid"

\* CellCenterData2d.__init__, register_var for each name, create(): the base container
\* with its zero-filled field array, its empty aux dict and its empty derives list
CellCenterData2d(g, names, a) ==
    [rec |-> [NoCont EXCEPT !.kind = "plain", !.grid = TheGrid, !.names = names,
                            !.nvar = Len(names), !.data = a[1], !.aux = a[2],
                            !.derives = a[3]],
     objs |-> (a[1] :> Zeros(<<g.qx, g.qy, Len(names)>>)) @@ (a[2] :> EmptyList)
              @@ (a[3] :> EmptyList)]

\* MappedCellCenterData2d.__init__ (then register_var, create()): R_fcx, R_fcy are []
MappedCellCenterData2d(g, names, a) ==
    LET base == CellCenterData2d(g, names, a)
    IN  [rec |-> [base.rec EXCEPT !.kind = "mapped", !.R_fcx = a[4], !.R_fcy = a[5]],
         objs |-> base.objs @@ (a[4] :> EmptyList) @@ (a[5] :> EmptyList)]

\* the variable layouts (ivars) make_rotation_matrices is called with
Layouts ==
    << [nvar |-> 2, ixmom |-> 0, iymom |-> 1],
       [nvar |-> 3, ixmom |-> 1, iymom |-> 2],
       [nvar |-> 3, ixmom |-> 0, iymom |-> 2] >>

\* the grid the containers of SpecData live on: a rotated grid of one zone
DataGridArgs == [mapk |-> 2, nx |-> 1, ny |-> 1, ng |-> 0, dom |-> 1]

\* MappedGrid2d(map_func, nx, ny, ng, ...) where the check passes
MappedGrid2d(a) ==
    LET g == GridMetric(GridBase(a))
    IN  GridRotation(g, calculate_rotation_matrices(g, <<<<1, 1>>, <<1, 1>>>>,
                                                    <<<<1, 1>>, <<1, 1>>>>))

DataGrid == MappedGrid2d(DataGridArgs)

\* grid.R_fcx and grid.R_fcy called with the layout ivars = Layouts[k]; what they
\* return for DataGrid is computed once
BuiltOnDataGrid ==
    [k \in 1..Len(Layouts) |->
        <<R_fcx(DataGrid, Layouts[k].nvar, Layouts[k].ixmom, Layouts[k].iymom),
          R_fcy(DataGrid, Layouts[k].nvar, Layouts[k].ixmom, Layouts[k].iymom)>>]

Build_R_fcx(g, k) ==
    IF g = DataGrid THEN BuiltOnDataGrid[k][1]
    ELSE R_fcx(g, Layouts[k].nvar, Layouts[k].ixmom, Layouts[k].iymom)

Build_R_fcy(g, k) ==
    IF g = DataGrid THEN BuiltOnDataGrid[k][2]
    ELSE R_fcy(g, Layouts[k].nvar, Layouts[k].ixmom, Layouts[k].iymom)

\* the value the model's writes store
WriteVal == FromRat(<<7, 1>>)

\* an in-place write to an object: a list or dict gets an entry, an array a new
\* first element
Mutate(obj) ==
    IF obj.shape = <<0>>
    THEN [shape |-> <<1>>, d |-> [idx \in {<<0>>} |-> WriteVal]]
    ELSE [obj EXCEPT !.d[[k \in 1..Len(obj.shape) |-> 0]] = WriteVal]

Written(obj) == \E idx \in DOMAIN obj.d : obj.d[idx] = WriteVal

\* no object of heap h carries a write of the caller
Pristine(h) == \A a \in DOMAIN h : ~Written(h[a])

\* what a container holds, by value
View(h, cn, c) ==
    [data |-> h[cn[c].data], aux |-> h[cn[c].aux], derives |-> h[cn[c].derives],
     R_fcx |-> IF cn[c].R_fcx = 0 THEN EmptyList ELSE h[cn[c].R_fcx],
     R_fcy |-> IF cn[c].R_fcy = 0 THEN EmptyList ELSE h[cn[c].R_fcy]]

\* the lowest free container slot
IsFreeSlot(c) == ~Live(c) /\ \A b \in 1..(c - 1) : Live(b)

\* what a call on a container leaves behind: the grid, the heap, the containers and
\* how the call ended
Outcome(g, h, cn, op) == [grid |-> g, heap |-> h, cont |-> cn, lastOp |-> op]

\* an outcome with the unreferenced objects freed
Collected(g, h, cn, op) ==
    LET n == Collect(h, cn) IN Outcome(g, n.heap, n.cont, op)

\* the two assignments of make_rotation_matrices, given what the builders returned
\* or raised: an exception of the first leaves both fields as they were
AssignRotation(c, rx, ry) ==
    LET a == Fresh(heap, 2, 1)
    IN  IF rx.kind # "ok"
        THEN Outcome(grid, heap, cont, Ended(rx.kind, << >>))
        ELSE IF ry.kind # "ok"
        THEN Collected(grid, (a[1] :> rx.a) @@ heap, [cont EXCEPT ![c].R_fcx = a[1]],
                       Ended(ry.kind, <<"R_fcx">>))
        ELSE Collected(grid, (a[1] :> rx.a) @@ (a[2] :> ry.a) @@ heap,
                       [cont EXCEPT ![c].R_fcx = a[1], ![c].R_fcy = a[2]], Ok)

\* the address of an array equal to v that a container already holds in field f,
\* or 0
HeldAt(v, f) ==
    IF \E b \in 1..MaxCont : cont[b].kind = "mapped" /\ heap[cont[b][f]] = v
    THEN cont[CHOOSE b \in 1..MaxCont : cont[b].kind = "mapped" /\ heap[cont[b][f]] = v][f]
    ELSE 0

\* the assignments with builders that hand out again an array they returned before
\* for the same layout
AssignCached(c, rx, ry) ==
    LET a == Fresh(heap, 2, 1)
        ax == IF HeldAt(rx.a, "R_fcx") # 0 THEN HeldAt(rx.a, "R_fcx") ELSE a[1]
        ay == IF HeldAt(ry.a, "R_fcy") # 0 THEN HeldAt(ry.a, "R_fcy") ELSE a[2]
    IN  IF rx.kind # "ok" \/ ry.kind # "ok"
        THEN Outcome(grid, heap, cont, Ended(rx.kind, << >>))
        ELSE Collected(grid, (a[1] :> rx.a) @@ (a[2] :> ry.a) @@ heap,
                       [cont EXCEPT ![c].R_fcx = ax, ![c].R_fcy = ay], Ok)

make_rotation_matrices_cached(c, k) ==
    AssignCached(c, Build_R_fcx(grid, k), Build_R_fcy(grid, k))

\* MappedCellCenterData2d.make_rotation_matrices(ivars) on container c, with
\* ivars = Layouts[k]
make_rotation_matrices(c, k) ==
    AssignRotation(c, Build_R_fcx(grid, k), Build_R_fcy(grid, k))

\* a clone that assigns old's objects to new without copying them
mapped_cell_center_data_clone_shallow(old, new) ==
    IF cont[old].kind # "mapped"
    THEN Outcome(grid, heap, cont, msg_fail)
    ELSE Collected(grid, heap, [cont EXCEPT ![new] = cont[old]], Ok)

\* a clone without the isinstance test: a plain container is constructed anew,
\* registered, created and copied until old.R_fcx raises AttributeError
mapped_cell_center_data_clone_unguarded(old, new) ==
    IF cont[old].kind # "mapped"
    THEN Outcome(grid, heap, cont,
                 Ended("AttributeError", <<"construct", "register_var", "create", "copy">>))
    ELSE LET made == MappedCellCenterData2d(grid, cont[old].names, Fresh(heap, 5, 1))
             h1 == made.objs @@ heap
             b == Fresh(h1, 5, 1)
             h2 == (b[1] :> heap[cont[old].aux]) @@ (b[2] :> heap[cont[old].data])
                   @@ (b[3] :> heap[cont[old].derives])
                   @@ (b[4] :> heap[cont[old].R_fcx])
                   @@ (b[5] :> heap[cont[old].R_fcy]) @@ h1
         IN  Collected(grid, h2,
                       [cont EXCEPT ![new] = [made.rec EXCEPT
                                                 !.grid = cont[old].grid,
                                                 !.aux = b[1], !.data = b[2],
                                                 !.derives = b[3],
                                                 !.R_fcx = b[4], !.R_fcy = b[5]]], Ok)

\* mapped_cell_center_data_clone(old); new is the slot the caller binds the result to
mapped_cell_center_data_clone(old, new) ==
    IF cont[old].kind # "mapped"
    THEN \* msg.fail("Can't clone object")
         Outcome(grid, heap, cont, msg_fail)
    ELSE LET \* new = myt(old.grid), register_var for each name, create()
             made == MappedCellCenterData2d(grid, cont[old].names, Fresh(heap, 5, 1))
             h1 == made.objs @@ heap
             \* the .copy() of aux, data, derives, R_fcx, R_fcy
             b == Fresh(h1, 5, 1)
             h2 == (b[1] :> heap[cont[old].aux]) @@ (b[2] :> heap[cont[old].data])
                   @@ (b[3] :> heap[cont[old].derives])
                   @@ (b[4] :> heap[cont[old].R_fcx])
                   @@ (b[5] :> heap[cont[old].R_fcy]) @@ h1
         IN  Collected(grid, h2,
                       [cont EXCEPT ![new] = [made.rec EXCEPT
                                                 !.grid = cont[old].grid,
                                                 !.aux = b[1], !.data = b[2],
                                                 !.derives = b[3],
                                                 !.R_fcx = b[4], !.R_fcy = b[5]]], Ok)

\* an in-place write to the object at address a
WriteTo(h, a) == [h EXCEPT ![a] = Mutate(@)]

\* the caller may call a container: the grid is built and no error is pending
Ready == gpc = "done" /\ lastOp = Ok

CanMakeRotation(c) == Ready /\ cont[c].kind = "mapped"

CanClone(old, new) == Ready /\ Live(old) /\ IsFreeSlot(new)

CanWrite(c, f) == Ready /\ Live(c) /\ cont[c][f] # 0

\* the caller's variables take the outcome of a call
Bind(n) ==
    /\ grid' = n.grid
    /\ heap' = n.heap
    /\ cont' = n.cont
    /\ lastOp' = n.lastOp
    /\ UNCHANGED <<gargs, gpc, ret>>

\* data = MappedCellCenterData2d(grid) or CellCenterData2d(grid), one variable
\* registered, create()
NewData(c, kind) ==
    /\ Ready
    /\ IsFreeSlot(c)
    /\ LET made == IF kind = "mapped"
                   THEN MappedCellCenterData2d(grid, <<"density">>, Fresh(heap, 5, 1))
                   ELSE CellCenterData2d(grid, <<"density">>, Fresh(heap, 3, 1))
       IN  Bind(Collected(grid, made.objs @@ heap, [cont EXCEPT ![c] = made.rec], Ok))

\* c.make_rotation_matrices(Layouts[k])
Call_make_rotation_matrices(c, k) ==
    /\ CanMakeRotation(c)
    /\ Bind(make_rotation_matrices(c, k))

\* new = mapped_cell_center_data_clone(old)
Call_mapped_cell_center_data_clone(old, new) ==
    /\ CanClone(old, new)
    /\ Bind(mapped_cell_center_data_clone(old, new))

\* the caller writes in place to one of the objects container c holds; the model's
\* caller writes while no object carries a write yet
Write(c, f) ==
    /\ CanWrite(c, f)
    /\ Pristine(heap)
    /\ Bind(Outcome(grid, WriteTo(heap, cont[c][f]), cont, Ok))

\* the caller handles the exception make_rotation_matrices raised and goes on; after
\* msg.fail the program has ended
Catch ==
    /\ gpc = "done"
    /\ lastOp.err = "ValueError"
    /\ lastOp' = Ok
    /\ UNCHANGED <<gargs, gpc, grid, ret, heap, cont>>

\* the caller is done with what the last call returned
Drop ==
    /\ gpc = "done"
    /\ ret # NoRet
    /\ ret' = NoRet
    /\ UNCHANGED <<gargs, gpc, grid, heap, cont, lastOp>>

\* --------------------------------------------------------- specifications
NoHeap == << >>

Init ==
    /\ gargs \in GridArgs
    /\ gpc = "new"
    /\ grid = NoGrid
    /\ ret = NoRet
    /\ heap = NoHeap
    /\ cont = [c \in 1..MaxCont |-> NoCont]
    /\ lastOp = Ok

Next ==
    \/ MappedGrid2d_init_base
    \/ MappedGrid2d_init_metric
    \/ MappedGrid2d_init_rotation
    \/ Call_R_fcx
    \/ Call_R_fcy
    \/ Call_scratch_array
    \/ Drop

Spec == Init /\ [][Next]_vars

InitData ==
    /\ gargs = DataGridArgs
    /\ gpc = "done"
    /\ grid = MappedGrid2d(gargs)
    /\ ret = NoRet
    /\ heap = NoHeap
    /\ cont = [c \in 1..MaxCont |-> NoCont]
    /\ lastOp = Ok

NextData ==
    \/ \E c \in 1..MaxCont, kind \in {"plain", "mapped"} : NewData(c, kind)
    \/ \E c \in 1..MaxCont, k \in 1..Len(Layouts) : Call_make_rotation_matrices(c, k)
    \/ \E old \in 1..MaxCont, new \in 1..MaxCont :
          Call_mapped_cell_center_data_clone(old, new)
    \/ \E c \in 1..MaxCont, f \in Fields : Write(c, f)
    \/ Catch

SpecData == InitData /\ [][NextData]_vars

\* ------------------------------------------------- properties of the grid
Builders == {"R_fcx", "R_fcy"}

\* a builder was called and returned an array
BuilderReturned == ret.op \in Builders /\ ret.res.kind = "ok"

\* the grid locations (i, j) of the (qx, qy) footprint, from the constructor's arguments
Footprint == (0..(gargs.nx + 2 * gargs.ng - 1)) \X (0..(gargs.ny + 2 * gargs.ng - 1))

\* the entries of array a at location ij, rows and columns p and q
Block(a, ij, p, q) ==
    << <<a.d[<<ij[1], ij[2], p, p>>], a.d[<<ij[1], ij[2], p, q>>]>>,
       <<a.d[<<ij[1], ij[2], q, p>>], a.d[<<ij[1], ij[2], q, q>>]>> >>

\* the face a builder evaluates its matrix on at location ij
FacePoint(op, ij) ==
    IF op = "R_fcx"
    THEN <<RSub(x2d(grid, ij[1]), RMul(<<1, 2>>, grid.dx)), y2d(grid, ij[2])>>
    ELSE <<x2d(grid, ij[1]), RSub(y2d(grid, ij[2]), RMul(<<1, 2>>, grid.dy))>>

FaceMatrix(op) == IF op = "R_fcx" THEN grid.sym_Rx ELSE grid.sym_Ry

\* C1, as stated: a builder called with nvar >= 2 and 0 <= ixmom < iymom < nvar
\* returns normally, and at every location the returned nvar x nvar matrix is the
\* identity except at rows/columns {ixmom, iymom}, which hold the face's rotation
\* matrix evaluated at that location.
C1_EmbedsBlockForEveryPair ==
    (ret.op \in Builders /\ ret.nvar >= 2 /\ ret.ixmom < ret.iymom)
    => /\ ret.res.kind = "ok"
       /\ \A ij \in Footprint :
             /\ Block(ret.res.a, ij, ret.ixmom, ret.iymom)
                   = EvalMat(FaceMatrix(ret.op), FacePoint(ret.op, ij))
             /\ \A r \in 0..(ret.nvar - 1), c \in 0..(ret.nvar - 1) :
                   (r \notin {ret.ixmom, ret.iymom} \/ c \notin {ret.ixmom, ret.iymom})
                   => ret.res.a.d[<<ij[1], ij[2], r, c>>] = IF r = c THEN One ELSE Zero

\* C2, as stated: on every grid that passed the construction check, at every
\* location, the 2x2 momentum block R of a returned array has R * R^T = I, no
\* entry undefined.
C2_OrthonormalEverywhere ==
    BuilderReturned
    => \A ij \in Footprint :
          MatMulT(Block(ret.res.a, ij, ret.ixmom, ret.iymom)) = Eye2

\* every location of the three metric arrays holds v[1], v[2], v[3]
MetricsAre(v) ==
    /\ DOMAIN grid.kappa.d = Footprint
    /\ DOMAIN grid.gamma_fcx.d = Footprint
    /\ DOMAIN grid.gamma_fcy.d = Footprint
    /\ \A ij \in Footprint :
          /\ grid.kappa.d[ij] = v[1]
          /\ grid.gamma_fcx.d[ij] = v[2]
          /\ grid.gamma_fcy.d[ij] = v[3]

MetricsSet == gpc \in {"metric", "done", "failed"}

\* C6, corrected: for the identity mapping kappa, gamma_fcx and gamma_fcy are 1 at
\* every location of the footprint, whatever dx and dy are.
C6_IdentityMetricsAreOne ==
    (IsIdentityMap(gargs.mapk) /\ MetricsSet) => MetricsAre(<<One, One, One>>)

\* the identity mapping on [0,1]x[0,1] with the largest nx = ny and ng: every
\* location of the footprint holds 1
C6_Witness ==
    /\ IsIdentityMap(gargs.mapk)
    /\ gpc = "done"
    /\ gargs.nx = MaxN /\ gargs.ny = MaxN /\ gargs.ng = MaxNg /\ gargs.dom = 1
    /\ grid.dx = <<1, MaxN>> /\ grid.dy = <<1, MaxN>>
    /\ Cardinality(DOMAIN grid.kappa.d) = (MaxN + 2 * MaxNg) * (MaxN + 2 * MaxNg)
    /\ MetricsAre(<<One, One, One>>)

\* C6, as stated: for the identity mapping kappa = dx*dy, gamma_fcx = dy and
\* gamma_fcy = dx at every location.
C6_IdentityMetricsAreCellSizes ==
    (IsIdentityMap(gargs.mapk) /\ MetricsSet)
    => MetricsAre(<<FromRat(RMul(grid.dx, grid.dy)), FromRat(grid.dy), FromRat(grid.dx)>>)

\* the rotation-by-theta matrix of the mapping the grid was built with
RotationByTheta ==
    LET a == Angles[gargs.mapk]
        c == FromRat(Rat(a[1], a[3]))
        s == FromRat(Rat(a[2], a[3]))
    IN  << <<c, SNeg(s)>>, <<s, c>> >>

\* C7, as stated: for a pure rotation mapping kappa is 1 everywhere and the
\* momentum block of both R_fcx and R_fcy is the rotation-by-theta matrix at every
\* location.
C7_BothBlocksAreRotation ==
    (gargs.mapk \in 1..NAngles /\ gpc = "done")
    => /\ \A ij \in Footprint : grid.kappa.d[ij] = One
       /\ BuilderReturned
          => \A ij \in Footprint :
                Block(ret.res.a, ij, ret.ixmom, ret.iymom) = RotationByTheta

\* the orthonormality check of both matrices passes at some sampled points
PassedCheck(g) ==
    \E s1 \in Samples \X Samples, s2 \in Samples \X Samples :
       CheckPasses(g.sym_Rx, s1) /\ CheckPasses(g.sym_Ry, s2)

\* the orthonormality check of one of the matrices fails at some sampled point
FailedCheck(g) ==
    LET r == sym_rotation_matrix(g, <<<<1, 1>>, <<1, 1>>>>, <<<<1, 1>>, <<1, 1>>>>)
    IN  \E s \in Samples \X Samples : ~CheckPasses(r.Rx, s) \/ ~CheckPasses(r.Ry, s)

\* C8: construction runs base grid, then metric arrays, then the rotation
\* derivation with its check; a grid whose check failed carries no builders and is
\* never returned, so builders are only ever called on a grid whose matrices passed
\* the check.
C8_CheckedBeforeReturned ==
    /\ gpc = "new" => grid = NoGrid
    /\ gpc = "base" => grid.kappa = EmptyList /\ ~grid.hasR
    /\ gpc = "metric" => DOMAIN grid.kappa.d = Footprint /\ ~grid.hasR
    /\ gpc = "failed" => DOMAIN grid.kappa.d = Footprint /\ ~grid.hasR /\ FailedCheck(grid)
    /\ gpc = "done" => DOMAIN grid.kappa.d = Footprint /\ grid.hasR /\ PassedCheck(grid)
    /\ ret # NoRet => gpc = "done"

\* a construction that computed the metric arrays and then failed the check: the
\* fold mapping, sampled on the line where its y-derivative vanishes
C8_Witness ==
    /\ gpc = "failed"
    /\ gargs.mapk = FoldMap
    /\ DOMAIN grid.kappa.d = Footprint
    /\ ~grid.hasR
    /\ PassedCheck(GridRotation(grid, sym_rotation_matrix(grid, <<<<1, 1>>, <<1, 1>>>>,
                                                          <<<<1, 1>>, <<1, 1>>>>)))

\* the dimensions scratch_array appends to (qx, qy) for each of ScratchArgs
ScratchDims == << << >>, <<MaxNvar>>, <<1>>, <<MaxNvar, MaxNvar>>, <<2, 1, MaxNvar>> >>

IsZeroFilled(a, sh) ==
    /\ a.shape = sh
    /\ DOMAIN a.d = Indices(sh)
    /\ \A idx \in DOMAIN a.d : a.d[idx] = Zero

\* C9: kappa, gamma_fcx and gamma_fcy have shape (nx+2ng, ny+2ng); an array a
\* builder returns has shape (nx+2ng, ny+2ng, nvar, nvar); scratch_array returns a
\* zero-filled array of shape (qx, qy) for nvar = 1 and (qx, qy) followed by the
\* flattened dimensions of nvar otherwise.
C9_Shapes ==
    LET q == <<gargs.nx + 2 * gargs.ng, gargs.ny + 2 * gargs.ng>>
    IN  /\ MetricsSet
           => /\ grid.kappa.shape = q /\ DOMAIN grid.kappa.d = Indices(q)
              /\ grid.gamma_fcx.shape = q /\ DOMAIN grid.gamma_fcx.d = Indices(q)
              /\ grid.gamma_fcy.shape = q /\ DOMAIN grid.gamma_fcy.d = Indices(q)
        /\ BuilderReturned
           => /\ ret.res.a.shape = q \o <<ret.nvar, ret.nvar>>
              /\ DOMAIN ret.res.a.d = Indices(q \o <<ret.nvar, ret.nvar>>)
        /\ ret.op = "scratch_array"
           => IsZeroFilled(ret.res.a, q \o ScratchDims[ret.nvar])

\* scratch_array returned for a nested nvar on a grid with ghost cells, and the
\* metric arrays are in place
C9_Witness ==
    /\ gpc = "done"
    /\ gargs.ng = MaxNg /\ gargs.nx = MaxN /\ gargs.ny = 1
    /\ ret.op = "scratch_array"
    /\ ret.nvar = Len(ScratchArgs)
    /\ ret.res.a.shape = <<MaxN + 2 * MaxNg, 1 + 2 * MaxNg, 2, 1, MaxNvar>>
    /\ grid.kappa.shape = <<MaxN + 2 * MaxNg, 1 + 2 * MaxNg>>

\* -------------------------------------------- properties of the containers
Slots == 1..MaxCont

IsMapped(c) == cont[c].kind = "mapped"

\* what container c holds now, and in the outcome n of a call
Holds(c) == View(heap, cont, c)

HoldsIn(n, c) == View(n.heap, n.cont, c)

\* the references the containers cn hold, one for each container and field
Refs(cn) ==
    {<<c, f>> \in Slots \X Fields : cn[c].kind # "none" /\ cn[c][f] # 0}

\* no object is referred to twice
NoSharing(cn) ==
    Cardinality({cn[r[1]][r[2]] : r \in Refs(cn)}) = Cardinality(Refs(cn))

\* C3: in every state, a write to an object of one container changes what no other
\* container holds; a clone holds, by value, what its original holds, the original
\* and every other container keep what they held, and the clone equals every
\* container that equals the original (two clones of an unmutated container are
\* equal).
C3_CloneIsDeepCopy ==
    /\ \A c \in Slots, f \in Fields :
          CanWrite(c, f)
          => LET n == Outcome(grid, WriteTo(heap, cont[c][f]), cont, Ok)
             IN  \A b \in Slots \ {c} : Live(b) => HoldsIn(n, b) = Holds(b)
    /\ \A old \in Slots, new \in Slots :
          (CanClone(old, new) /\ IsMapped(old))
          => LET n == mapped_cell_center_data_clone(old, new)
             IN  /\ n.lastOp = Ok
                 /\ n.cont[new].kind = "mapped"
                 /\ HoldsIn(n, new) = Holds(old)
                 /\ \A b \in Slots \ {new} :
                       Live(b) => /\ HoldsIn(n, b) = Holds(b)
                                  /\ Holds(b) = Holds(old) => HoldsIn(n, b) = HoldsIn(n, new)

\* three containers with equal, non-empty rotation arrays: two carry the same
\* write in their field data, in different objects (one is a clone made after the
\* write), the third, cloned before the write, does not carry it
C3_Witness ==
    \E a \in Slots, b \in Slots, c \in Slots :
       /\ IsMapped(a) /\ IsMapped(b) /\ IsMapped(c)
       /\ cont[a].data # cont[c].data
       /\ Written(heap[cont[a].data]) /\ Written(heap[cont[c].data])
       /\ ~Written(heap[cont[b].data])
       /\ heap[cont[a].R_fcx] # EmptyList
       /\ heap[cont[a].R_fcx] = heap[cont[b].R_fcx]
       /\ heap[cont[a].R_fcx] = heap[cont[c].R_fcx]

C5_StoredIsLastLayout ==
    \A c \in Slots, k \in 1..Len(Layouts) :
       CanMakeRotation(c)
       => LET n == make_rotation_matrices(c, k)
          IN  /\ n.lastOp = Ok
              /\ Build_R_fcx(grid, k).kind = "ok"
              /\ Build_R_fcy(grid, k).kind = "ok"
              /\ HoldsIn(n, c).R_fcx = Build_R_fcx(grid, k).a
              /\ HoldsIn(n, c).R_fcy = Build_R_fcy(grid, k).a

\* C10: in every state, a make_rotation_matrices or clone call leaves the grid
\* with its metric arrays as it was and changes what no other container holds; no
\* array it stores shares storage with another; a clone is bound to the grid object
\* of its original.
C10_SharedGridFrame ==
    /\ \A c \in Slots, k \in 1..Len(Layouts) :
          CanMakeRotation(c)
          => LET n == make_rotation_matrices(c, k)
             IN  /\ n.grid = grid
                 /\ n.cont[c].grid = cont[c].grid
                 /\ \A b \in Slots \ {c} :
                       Live(b) => HoldsIn(n, b) = Holds(b) /\ n.cont[b].grid = cont[b].grid
                 /\ NoSharing(n.cont)
    /\ \A old \in Slots, new \in Slots :
          (CanClone(old, new) /\ IsMapped(old))
          => LET n == mapped_cell_center_data_clone(old, new)
             IN  /\ n.grid = grid
                 /\ n.cont[new].grid = cont[old].grid
                 /\ \A b \in Slots \ {new} :
                       Live(b) => HoldsIn(n, b) = Holds(b) /\ n.cont[b].grid = cont[b].grid
                 /\ NoSharing(n.cont)

\* two containers built on their own and a clone, all bound to the one grid, hold
\* equal rotation arrays for the second layout in different objects
C10_Witness ==
    /\ \A c \in Slots : IsMapped(c) /\ cont[c].grid = TheGrid
    /\ \A c \in Slots : heap[cont[c].R_fcx] = Build_R_fcx(grid, 2).a
    /\ NoSharing(cont)
    /\ Cardinality({cont[c].R_fcx : c \in Slots}) = MaxCont

====
